---- MODULE Spec2Model ----
(***************************************************************************)
(* Wallet by BudgetBakers MCP server (server.py): the lifespan that owns   *)
(* the shared HTTP client, the ten tool handlers with their parameter      *)
(* tables, and the request gateway _fetch.                                 *)
(*                                                                         *)
(* Python runs the handlers as coroutines on one event loop: a handler is  *)
(* atomic up to `await client.get(...)` and again from the moment the      *)
(* response (or the transport error) arrives to its return.  A returned    *)
(* string is represented by the JSON value it encodes plus the indent it   *)
(* was printed with.                                                       *)
(***************************************************************************)
EXTENDS Integers, Sequences, FiniteSets, TLC

\* ---------------------------------------------------------------- bounds
NumSlots == 2       \* handler invocations that may be in flight together
MaxSupplied == 2    \* arguments a caller sets explicitly in one invocation
MaxLead == 1        \* leading parameters varied in the lifecycle runs

\* ---------------------------------------------------------------- values
\* A Python value of type str | int | None.
PyNone == [t |-> "none", s |-> "", n |-> 0]
PyStr(x) == [t |-> "str", s |-> x, n |-> 0]
PyInt(k) == [t |-> "int", s |-> "", n |-> k]

ArgValues == {PyNone, PyStr(""), PyStr("a"), PyInt(0), PyInt(5)}

\* A formal parameter of a tool: required ones have no default.
Req(nm) == [name |-> nm, required |-> TRUE, default |-> PyNone]
Opt(nm, d) == [name |-> nm, required |-> FALSE, default |-> d]

Tools ==
  {"get_accounts", "get_records", "get_records_by_id", "get_categories",
   "get_budgets", "get_goals", "get_labels", "get_standing_orders",
   "get_record_rules", "get_api_usage"}

Signature(tool) ==
  CASE tool = "get_accounts" ->
         << Opt("limit", PyInt(30)), Opt("offset", PyInt(0)),
            Opt("account_id", PyNone), Opt("name", PyNone),
            Opt("account_type", PyNone), Opt("currency_code", PyNone),
            Opt("bank_account_number", PyNone), Opt("created_at", PyNone),
            Opt("updated_at", PyNone) >>
    [] tool = "get_records" ->
         << Req("account_id"), Opt("record_date", PyNone),
            Opt("limit", PyInt(30)), Opt("offset", PyInt(0)),
            Opt("category_id", PyNone), Opt("label_id", PyNone),
            Opt("note", PyNone), Opt("payee", PyNone), Opt("payer", PyNone),
            Opt("amount", PyNone), Opt("record_type", PyNone),
            Opt("sort_by", PyNone), Opt("created_at", PyNone),
            Opt("updated_at", PyNone) >>
    [] tool = "get_records_by_id" -> << Req("record_ids") >>
    [] tool = "get_categories" ->
         << Opt("limit", PyInt(50)), Opt("offset", PyInt(0)),
            Opt("category_id", PyNone), Opt("name", PyNone),
            Opt("created_at", PyNone), Opt("updated_at", PyNone) >>
    [] tool = "get_budgets" ->
         << Opt("limit", PyInt(30)), Opt("offset", PyInt(0)),
            Opt("budget_id", PyNone), Opt("name", PyNone),
            Opt("currency_code", PyNone), Opt("created_at", PyNone),
            Opt("updated_at", PyNone) >>
    [] tool = "get_goals" ->
         << Opt("limit", PyInt(30)), Opt("offset", PyInt(0)),
            Opt("goal_id", PyNone), Opt("name", PyNone),
            Opt("note", PyNone), Opt("created_at", PyNone),
            Opt("updated_at", PyNone) >>
    [] tool = "get_labels" ->
         << Opt("limit", PyInt(50)), Opt("offset", PyInt(0)),
            Opt("label_id", PyNone), Opt("name", PyNone),
            Opt("created_at", PyNone), Opt("updated_at", PyNone) >>
    [] tool = "get_standing_orders" ->
         << Opt("limit", PyInt(30)), Opt("offset", PyInt(0)),
            Opt("standing_order_id", PyNone), Opt("name", PyNone),
            Opt("currency_code", PyNone), Opt("created_at", PyNone),
            Opt("updated_at", PyNone) >>
    [] tool = "get_record_rules" ->
         << Opt("limit", PyInt(30)), Opt("offset", PyInt(0)),
            Opt("rule_id", PyNone), Opt("name", PyNone),
            Opt("created_at", PyNone), Opt("updated_at", PyNone) >>
    [] tool = "get_api_usage" -> << Opt("period", PyStr("30days")) >>

\* The fixed endpoint of a tool.
Path(tool) ==
  CASE tool = "get_accounts" -> "/accounts"
    [] tool = "get_records" -> "/records"
    [] tool = "get_records_by_id" -> "/records/by-id"
    [] tool = "get_categories" -> "/categories"
    [] tool = "get_budgets" -> "/budgets"
    [] tool = "get_goals" -> "/goals"
    [] tool = "get_labels" -> "/labels"
    [] tool = "get_standing_orders" -> "/standing-orders"
    [] tool = "get_record_rules" -> "/record-rules"
    [] tool = "get_api_usage" -> "/api-usage/stats"

\* The dict literal a tool hands to _fetch, in insertion order:
\* << upstream key, caller-facing parameter >>.
Mapping(tool) ==
  CASE tool = "get_accounts" ->
         << <<"limit", "limit">>, <<"offset", "offset">>,
            <<"id", "account_id">>, <<"name", "name">>,
            <<"accountType", "account_type">>,
            <<"currencyCode", "currency_code">>,
            <<"bankAccountNumber", "bank_account_number">>,
            <<"createdAt", "created_at">>, <<"updatedAt", "updated_at">> >>
    [] tool = "get_records" ->
         << <<"accountId", "account_id">>, <<"recordDate", "record_date">>,
            <<"limit", "limit">>, <<"offset", "offset">>,
            <<"categoryId", "category_id">>, <<"labelId", "label_id">>,
            <<"note", "note">>, <<"payee", "payee">>, <<"payer", "payer">>,
            <<"amount", "amount">>, <<"recordType", "record_type">>,
            <<"sortBy", "sort_by">>, <<"createdAt", "created_at">>,
            <<"updatedAt", "updated_at">> >>
    [] tool = "get_records_by_id" -> << <<"id", "record_ids">> >>
    [] tool = "get_categories" ->
         << <<"limit", "limit">>, <<"offset", "offset">>,
            <<"id", "category_id">>, <<"name", "name">>,
            <<"createdAt", "created_at">>, <<"updatedAt", "updated_at">> >>
    [] tool = "get_budgets" ->
         << <<"limit", "limit">>, <<"offset", "offset">>,
            <<"id", "budget_id">>, <<"name", "name">>,
            <<"currencyCode", "currency_code">>,
            <<"createdAt", "created_at">>, <<"updatedAt", "updated_at">> >>
    [] tool = "get_goals" ->
         << <<"limit", "limit">>, <<"offset", "offset">>,
            <<"id", "goal_id">>, <<"name", "name">>, <<"note", "note">>,
            <<"createdAt", "created_at">>, <<"updatedAt", "updated_at">> >>
    [] tool = "get_labels" ->
         << <<"limit", "limit">>, <<"offset", "offset">>,
            <<"id", "label_id">>, <<"name", "name">>,
            <<"createdAt", "created_at">>, <<"updatedAt", "updated_at">> >>
    [] tool = "get_standing_orders" ->
         << <<"limit", "limit">>, <<"offset", "offset">>,
            <<"id", "standing_order_id">>, <<"name", "name">>,
            <<"currencyCode", "currency_code">>,
            <<"createdAt", "created_at">>, <<"updatedAt", "updated_at">> >>
    [] tool = "get_record_rules" ->
         << <<"limit", "limit">>, <<"offset", "offset">>,
            <<"id", "rule_id">>, <<"name", "name">>,
            <<"createdAt", "created_at">>, <<"updatedAt", "updated_at">> >>
    [] tool = "get_api_usage" -> << <<"period", "period">> >>

EmptyDict == [k \in {} |-> PyNone]

Names(tool) == {Signature(tool)[j].name : j \in 1..Len(Signature(tool))}

\* Python's binding of the call's keyword arguments to the handler's formal
\* parameters: a supplied value wins, otherwise the default; a required
\* parameter left out makes the call fail before the body runs.
BindArgs(tool, supplied) ==
  LET sig == Signature(tool)
      missing == {j \in 1..Len(sig) :
                    sig[j].required /\ sig[j].name \notin DOMAIN supplied}
      ent(nm) == CHOOSE j \in 1..Len(sig) : sig[j].name = nm
  IN [ok |-> missing = {},
      vals |-> [nm \in Names(tool) |->
                  IF nm \in DOMAIN supplied THEN supplied[nm]
                  ELSE sig[ent(nm)].default]]

\* The params dict literal of the handler, as a sequence of items.
Params(tool, vals) ==
  [j \in 1..Len(Mapping(tool)) |-> << Mapping(tool)[j][1], vals[Mapping(tool)[j][2]] >>]

\* ------------------------------------------------------- request gateway
Put(d, k, v) == [x \in DOMAIN d \cup {k} |-> IF x = k THEN v ELSE d[x]]

\* Variant: `if v:`, which also drops 0.
ForwardedIfTruthy(v) ==
  v.t # "none" /\ ~(v.t = "str" /\ v.s = "") /\ ~(v.t = "int" /\ v.n = 0)

\* `v is not None and v != ""`
Forwarded(v) == v.t # "none" /\ ~(v.t = "str" /\ v.s = "")

\* Variant: the dict starts empty.
NoBaseParams == [k \in {} |-> PyNone]

BaseParams == [k \in {"agentHints"} |-> PyStr("true")]

RECURSIVE CleanLoop(_, _, _)
CleanLoop(items, j, clean) ==
  IF j > Len(items) THEN clean
  ELSE CleanLoop(items, j + 1,
                 IF Forwarded(items[j][2])
                 THEN Put(clean, items[j][1], items[j][2]) ELSE clean)

\* clean = {"agentHints": "true"}; then the loop, skipped for a falsy params.
Clean(params) ==
  IF Len(params) > 0 THEN CleanLoop(params, 1, BaseParams) ELSE BaseParams

\* The GET that _fetch issues on the lifespan's client.
Request(client, path, params) ==
  [client |-> client, method |-> "GET", path |-> path, params |-> Clean(params)]

\* JSON values: an object with its top-level members, or an array.
NoFields == [k \in {} |-> ""]
JObj(f) == [kind |-> "object", fields |-> f]
JArr == [kind |-> "array", fields |-> NoFields]

BodyPayload == "{\"accounts\": []}"
BodyErrKey == "{\"error\": \"maintenance\"}"
BodyArray == "[]"
BodyText == "not found"
BodyEmpty == ""
Bodies == {BodyPayload, BodyErrKey, BodyArray, BodyText, BodyEmpty}

\* resp.json(): the parsed body, or a JSONDecodeError for a body that is
\* not a JSON document.
JsonLoads(text) ==
  CASE text = BodyPayload -> [ok |-> TRUE, value |-> JObj([accounts |-> "[]"])]
    [] text = BodyErrKey -> [ok |-> TRUE, value |-> JObj([error |-> "maintenance"])]
    [] text = BodyArray -> [ok |-> TRUE, value |-> JArr]
    [] OTHER -> [ok |-> FALSE, value |-> JArr]

\* Header names compare case-insensitively.
Lower(nm) ==
  CASE nm = "Retry-After" -> "retry-after"
    [] nm = "RETRY-AFTER" -> "retry-after"
    [] OTHER -> nm

\* Variant: a lookup by the exact spelling of the name.
HeadersGetExact(headers, nm, default) ==
  LET hits == {j \in 1..Len(headers) : headers[j][1] = nm}
  IN IF hits = {} THEN default
     ELSE headers[CHOOSE j \in hits : \A k \in hits : j <= k][2]

\* e.response.headers.get(name, default)
HeadersGet(headers, nm, default) ==
  LET hits == {j \in 1..Len(headers) : Lower(headers[j][1]) = Lower(nm)}
  IN IF hits = {} THEN default
     ELSE headers[CHOOSE j \in hits : \A k \in hits : j <= k][2]

\* resp.raise_for_status() lets a response pass iff its status is 2xx.
IsSuccess(status) == status >= 200 /\ status <= 299

Http(st, hs, b) ==
  [kind |-> "http", status |-> st, headers |-> hs, body |-> b, message |-> ""]
TransportError(msg) ==
  [kind |-> "transport", status |-> 0, headers |-> <<>>, body |-> "", message |-> msg]
NoOutcome ==
  [kind |-> "none", status |-> 0, headers |-> <<>>, body |-> "", message |-> ""]

Returned(j, ind) == [type |-> "str", json |-> j, indent |-> ind, exc |-> ""]
Raised(e) == [type |-> "exc", json |-> JArr, indent |-> 0, exc |-> e]
NoResult == [type |-> "none", json |-> JArr, indent |-> 0, exc |-> ""]

\* Variant: a transport failure reported under `message` instead of `error`.
FetchResultTransportMessage(o) ==
  IF o.kind = "transport"
  THEN Returned(JObj([message |-> "Request failed: " \o o.message]), 2)
  ELSE IF IsSuccess(o.status)
  THEN LET parsed == JsonLoads(o.body)
       IN IF parsed.ok THEN Returned(parsed.value, 0)
          ELSE Raised("JSONDecodeError")
  ELSE IF o.status = 429
  THEN Returned(JObj([error |-> "Rate limit exceeded (429)",
                      retry_after |-> HeadersGet(o.headers, "Retry-After", "unknown"),
                      hint |-> "Use get_api_usage() to check remaining quota."]), 2)
  ELSE Returned(JObj([error |-> "HTTP " \o ToString(o.status),
                      detail |-> o.body]), 2)

\* What _fetch does with the outcome of `await client.get(...)`.
FetchResult(o) ==
  IF o.kind = "transport"
  THEN Returned(JObj([error |-> "Request failed: " \o o.message]), 2)
  ELSE IF IsSuccess(o.status)
  THEN LET parsed == JsonLoads(o.body)
       IN IF parsed.ok THEN Returned(parsed.value, 0)
          ELSE Raised("JSONDecodeError")
  ELSE IF o.status = 429
  THEN Returned(JObj([error |-> "Rate limit exceeded (429)",
                      retry_after |-> HeadersGet(o.headers, "Retry-After", "unknown"),
                      hint |-> "Use get_api_usage() to check remaining quota."]), 2)
  ELSE Returned(JObj([error |-> "HTTP " \o ToString(o.status),
                      detail |-> o.body]), 2)

\* ------------------------------------------------------------ environment
\* What the upstream API, or the transport, can answer to one GET.
RetryHeaders ==
  { <<>>, << <<"Retry-After", "120">> >>, << <<"retry-after", "30">> >>,
    << <<"Content-Type", "text/plain">> >> }

Outcomes ==
  {Http(st, <<>>, b) : st \in {200, 204}, b \in Bodies}
    \cup {Http(429, h, BodyEmpty) : h \in RetryHeaders}
    \cup {Http(st, <<>>, b) : st \in {301, 404, 500}, b \in {BodyText, BodyEmpty}}
    \cup {TransportError(m) : m \in {"timed out", ""}}

ConcOutcomes ==
  {Http(200, <<>>, BodyPayload), Http(200, <<>>, BodyText),
   Http(429, <<>>, BodyEmpty), TransportError("timed out")}

ParamOutcomes == {Http(200, <<>>, BodyPayload)}

ConcTools == {"get_records", "get_api_usage"}

\* The calls made in the interleaved runs: get_records without, with an
\* empty and with a real account id; get_api_usage with and without period.
ConcArgs(tool) ==
  IF tool = "get_records"
  THEN {EmptyDict, [account_id |-> PyStr("")], [account_id |-> PyStr("a")]}
  ELSE {EmptyDict, [period |-> PyStr("7days")]}

\* The process environment: WALLET_API_TOKEN unset, empty or set.
Environments ==
  { [k \in {} |-> ""], [WALLET_API_TOKEN |-> ""], [WALLET_API_TOKEN |-> "tok"] }

\* Keyword arguments of one invocation: at most k of the given parameters
\* are supplied.
ArgChoices(names, k) ==
  UNION { [S -> ArgValues] : S \in {T \in SUBSET names : Cardinality(T) <= k} }

LeadNames(tool) ==
  {Signature(tool)[j].name :
     j \in {x \in 1..Len(Signature(tool)) : x <= MaxLead}}

\* ------------------------------------------------------------------ state
VARIABLES
  env,       \* os.environ
  phase,     \* where app_lifespan is: "boot", "failed" (raised before the
             \* client), "serving" (at the yield), "stopped" (left normally)
             \* or "aborted" (left by an exception)
  http,      \* AppContext.http: the client yielded by the lifespan, 0 if none
  created,   \* every httpx.AsyncClient constructed so far
  open,      \* the clients that are not closed
  calls,     \* per slot, the frame of the handler invocation running in it
  everSent   \* some request has gone out

vars == <<env, phase, http, created, open, calls, everSent>>

Slots == 1..NumSlots

Idle ==
  [pc |-> "idle", tool |-> "", args |-> EmptyDict, client |-> 0,
   sent |-> <<>>, outcome |-> NoOutcome, result |-> NoResult]

\* os.environ.get(name, default)
EnvGet(e, nm, default) == IF nm \in DOMAIN e THEN e[nm] ELSE default

\* Variant: `if token is None`, never true of a str.
TokenIsNone(token) == FALSE

\* `if not token`
TokenMissing(token) == token = ""

\* Variant: the client closed by a plain statement after the yield, which
\* an exception skips.
LifespanExitNormalOnly(o, client, kind) ==
  IF kind = "normal" THEN o \ {client} ELSE o

\* Leaving `async with httpx.AsyncClient(...) as client`, by a normal exit
\* or by an exception thrown in at the yield: the client is closed.
LifespanExit(o, client, kind) == o \ {client}

\* A handler from its call to `await client.get(path, params=clean)`.
Start(tool, supplied, client) ==
  LET b == BindArgs(tool, supplied)
  IN IF ~b.ok
     THEN [Idle EXCEPT !.pc = "rejected", !.tool = tool, !.args = supplied,
                       !.result = Raised("TypeError")]
     ELSE [Idle EXCEPT !.pc = "awaiting", !.tool = tool, !.args = supplied,
                       !.client = client,
                       !.sent = << Request(client, Path(tool), Params(tool, b.vals)) >>]

\* Variant: a 429 makes the handler send the request again and wait.
ResumeRetry429(c, o) ==
  IF o.kind = "http" /\ o.status = 429
  THEN [c EXCEPT !.sent = Append(@, @[1])]
  ELSE LET r == FetchResult(o)
       IN [c EXCEPT !.pc = IF r.type = "exc" THEN "raised" ELSE "done",
                    !.outcome = o, !.result = r]

\* A handler from the completion of the await to its end.
Resume(c, o) ==
  LET r == FetchResult(o)
  IN [c EXCEPT !.pc = IF r.type = "exc" THEN "raised" ELSE "done",
               !.outcome = o, !.result = r]

\* Variant: a lock held around the GET, one request at a time.
CanStartLocked(cs, i) ==
  cs[i].pc = "idle" /\ \A j \in DOMAIN cs : cs[j].pc # "awaiting"

\* No lock guards the shared client: a handler starts whenever its slot is
\* free, whatever the other invocations are doing.
CanStart(cs, i) == cs[i].pc = "idle"

Init ==
  /\ env \in Environments
  /\ phase = "boot"
  /\ http = 0
  /\ created = {}
  /\ open = {}
  /\ calls = [i \in Slots |-> Idle]
  /\ everSent = FALSE

\* app_lifespan up to its yield.
Startup ==
  /\ phase = "boot"
  /\ LET token == EnvGet(env, "WALLET_API_TOKEN", "")
         client == Cardinality(created) + 1
     IN IF TokenMissing(token)
        THEN /\ phase' = "failed"
             /\ UNCHANGED <<http, created, open>>
        ELSE /\ phase' = "serving"
             /\ created' = created \cup {client}
             /\ open' = open \cup {client}
             /\ http' = client
  /\ UNCHANGED <<env, calls, everSent>>

\* app_lifespan after its yield; the runtime leaves the lifespan once no
\* handler is suspended on the network.
Shutdown(kind) ==
  /\ phase = "serving"
  /\ \A i \in Slots : calls[i].pc # "awaiting"
  /\ phase' = IF kind = "normal" THEN "stopped" ELSE "aborted"
  /\ open' = LifespanExit(open, http, kind)
  /\ UNCHANGED <<env, http, created, calls, everSent>>

\* Tools are callable while the lifespan is at its yield.
Accepting(i) == phase = "serving" /\ CanStart(calls, i)

\* A tool call arrives and its handler runs to the await.
Invoke(i, tool, supplied) ==
  /\ Accepting(i)
  /\ calls' = [calls EXCEPT ![i] = Start(tool, supplied, http)]
  /\ everSent' = (everSent \/ calls'[i].sent # <<>>)
  /\ UNCHANGED <<env, phase, http, created, open>>

\* The GET completes and the handler runs to its end.
Respond(i, o) ==
  /\ calls[i].pc = "awaiting"
  /\ calls' = [calls EXCEPT ![i] = Resume(calls[i], o)]
  /\ UNCHANGED <<env, phase, http, created, open, everSent>>

\* The runtime hands the outcome to the caller; the slot is free again.
Return(i) ==
  /\ calls[i].pc \in {"done", "raised", "rejected"}
  /\ calls' = [calls EXCEPT ![i] = Idle]
  /\ UNCHANGED <<env, phase, http, created, open, everSent>>

\* One invocation at a time, every tool, every outcome.
Next ==
  \/ Startup
  \/ \E kind \in {"normal", "exception"} : Shutdown(kind)
  \/ /\ Accepting(1)
     /\ \E tool \in Tools : \E supplied \in ArgChoices(LeadNames(tool), MaxSupplied) :
          Invoke(1, tool, supplied)
  \/ \E o \in Outcomes : Respond(1, o)
  \/ Return(1)

Spec == Init /\ [][Next]_vars

\* One invocation at a time, every combination of arguments.
ParamNext ==
  \/ Startup
  \/ /\ Accepting(1)
     /\ \E tool \in Tools : \E supplied \in ArgChoices(Names(tool), MaxSupplied) :
          Invoke(1, tool, supplied)
  \/ \E o \in ParamOutcomes : Respond(1, o)
  \/ Return(1)

ParamSpec == Init /\ [][ParamNext]_vars

\* Invocations in every slot, interleaved.
ConcNext ==
  \/ Startup
  \/ \E kind \in {"normal", "exception"} : Shutdown(kind)
  \/ \E i \in Slots :
       /\ Accepting(i)
       /\ \E tool \in ConcTools : \E supplied \in ConcArgs(tool) :
            Invoke(i, tool, supplied)
  \/ \E i \in Slots : \E o \in ConcOutcomes : Respond(i, o)
  \/ \E i \in Slots : Return(i)

ConcSpec == Init /\ [][ConcNext]_vars

\* ------------------------------------------------------------ properties
Ended(c) == c.pc \in {"done", "raised"}
Issued(c) == c.pc \in {"awaiting", "done", "raised"}

\* The request failed: no response at all, or a status outside 2xx.
Failed(o) ==
  \/ o.kind = "transport"
  \/ o.kind = "http" /\ (o.status < 200 \/ o.status > 299)

\* The returned string encodes an object with a top-level `error` member.
HasErrorKey(r) ==
  r.type = "str" /\ r.json.kind = "object" /\ "error" \in DOMAIN r.json.fields

\* The response body is a JSON object with a top-level `error` member.
BodyHasErrorKey(text) ==
  /\ JsonLoads(text).ok
  /\ JsonLoads(text).value.kind = "object"
  /\ "error" \in DOMAIN JsonLoads(text).value.fields

\* C1: whatever the outcome of the GET (2xx with any body, 429, another
\* non-2xx status, a transport failure), _fetch ends by returning a string
\* and never by raising to the tool handler.
C1_NeverRaises ==
  \A i \in Slots : Ended(calls[i]) => calls[i].result.type = "str"

\* C2: the outgoing parameters contain the mapped upstream key of a handler
\* parameter iff its value is neither None nor the empty string, and the key
\* then carries exactly that value (0 included).
C2_ForwardedIffNonEmpty ==
  \A i \in Slots :
    Issued(calls[i]) =>
      LET c == calls[i]
          vals == BindArgs(c.tool, c.args).vals
          q == c.sent[1].params
      IN \A j \in 1..Len(Mapping(c.tool)) :
           LET key == Mapping(c.tool)[j][1]
               v == vals[Mapping(c.tool)[j][2]]
           IN /\ (key \in DOMAIN q) <=> ~(v = PyNone \/ v = PyStr(""))
              /\ key \in DOMAIN q => q[key] = v

C2_Witness ==
  \E i \in Slots :
    /\ calls[i].pc = "awaiting"
    /\ calls[i].tool = "get_accounts"
    /\ DOMAIN calls[i].args = {"name", "account_id"}
    /\ calls[i].args["name"] = PyStr("")
    /\ calls[i].args["account_id"] = PyStr("a")
    /\ DOMAIN calls[i].sent[1].params = {"agentHints", "limit", "offset", "id"}
    /\ calls[i].sent[1].params["offset"] = PyInt(0)

\* C3: every request that goes out carries agentHints = "true", whatever
\* the other arguments are.
C3_AgentHintsAlways ==
  \A i \in Slots : \A k \in 1..Len(calls[i].sent) :
    /\ "agentHints" \in DOMAIN calls[i].sent[k].params
    /\ calls[i].sent[k].params["agentHints"] = PyStr("true")

C3_Witness ==
  \E i \in Slots :
    /\ calls[i].pc = "awaiting"
    /\ calls[i].tool = "get_records_by_id"
    /\ calls[i].args["record_ids"] = PyStr("")
    /\ DOMAIN calls[i].sent[1].params = {"agentHints"}

\* C4 as stated: a returned result has a top-level `error` key exactly when
\* the request failed.
C4_ErrorIffFailed ==
  \A i \in Slots :
    calls[i].pc = "done" =>
      (HasErrorKey(calls[i].result) <=> Failed(calls[i].outcome))

\* C4 amended: a returned result has a top-level `error` key exactly when
\* the request failed or the 2xx body itself is an object with a top-level
\* `error` member (the body is passed through as it is).
C4_ErrorIffFailedOrInBody ==
  \A i \in Slots :
    calls[i].pc = "done" =>
      (HasErrorKey(calls[i].result)
         <=> (Failed(calls[i].outcome) \/ BodyHasErrorKey(calls[i].outcome.body)))

C4_Witness ==
  \E i \in Slots :
    /\ calls[i].pc = "done"
    /\ calls[i].outcome = Http(200, <<>>, BodyErrKey)
    /\ HasErrorKey(calls[i].result)

\* C5: on status 429 the result is the object {error: "Rate limit exceeded
\* (429)", retry_after: the Retry-After header if present else "unknown",
\* hint: "Use get_api_usage() to check remaining quota."}, without `detail`.
C5_RateLimitObject ==
  \A i \in Slots :
    LET c == calls[i]
        hs == {j \in 1..Len(c.outcome.headers) :
                 c.outcome.headers[j][1] \in {"Retry-After", "retry-after", "RETRY-AFTER"}}
    IN (c.outcome.kind = "http" /\ c.outcome.status = 429) =>
         /\ c.pc = "done"
         /\ c.result.type = "str"
         /\ c.result.json.kind = "object"
         /\ DOMAIN c.result.json.fields = {"error", "retry_after", "hint"}
         /\ c.result.json.fields["error"] = "Rate limit exceeded (429)"
         /\ c.result.json.fields["hint"] = "Use get_api_usage() to check remaining quota."
         /\ hs = {} => c.result.json.fields["retry_after"] = "unknown"
         /\ \A j \in hs : c.result.json.fields["retry_after"] = c.outcome.headers[j][2]

C5_Witness ==
  \E i \in Slots :
    /\ calls[i].pc = "done"
    /\ calls[i].outcome = Http(429, << <<"Retry-After", "120">> >>, BodyEmpty)
    /\ calls[i].result.json.fields["retry_after"] = "120"

\* C6: a get_records call whose account identifier is absent or empty never
\* ends in a successful result.
C6_RecordsNeedAccount ==
  \A i \in Slots :
    LET c == calls[i]
    IN (/\ c.tool = "get_records"
        /\ c.pc \in {"done", "raised", "rejected"}
        /\ ("account_id" \notin DOMAIN c.args \/ c.args["account_id"] = PyStr("")))
       => (c.pc = "rejected" \/ (c.pc = "done" /\ Failed(c.outcome)))

\* C7: at most one client ever exists; it is created when the lifespan is
\* entered, it is the one every invocation uses, it stays open while tools
\* run and it is closed once the lifespan is left, normally or not.
C7_OneSharedClient ==
  /\ Cardinality(created) <= 1
  /\ open \subseteq created
  /\ phase \in {"boot", "failed"} => created = {} /\ http = 0
  /\ phase = "serving" => created = {http} /\ open = {http}
  /\ phase \in {"stopped", "aborted"} => created = {http} /\ open = {}
  /\ \A i \in Slots :
       Issued(calls[i]) =>
         /\ calls[i].client = http
         /\ \A k \in 1..Len(calls[i].sent) : calls[i].sent[k].client = http

C7_Witness ==
  /\ phase = "aborted"
  /\ open = {}
  /\ \E i \in Slots : \E j \in Slots :
       /\ i # j
       /\ calls[i].pc = "done" /\ calls[j].pc = "done"
       /\ calls[i].client = calls[j].client /\ calls[i].client \in created

\* C8: an invocation issues exactly one GET, to the endpoint of its tool;
\* once an outcome has arrived (a failure included) the invocation has ended
\* and has issued nothing more.
C8_NoRetry ==
  \A i \in Slots :
    LET c == calls[i]
    IN /\ Len(c.sent) <= 1
       /\ Issued(c) => /\ Len(c.sent) = 1
                       /\ c.sent[1].method = "GET"
                       /\ c.sent[1].path = Path(c.tool)
       /\ c.outcome # NoOutcome => Ended(c)
       /\ Failed(c.outcome) => c.pc = "done"

C8_Witness ==
  \E i \in Slots :
    /\ calls[i].pc = "done"
    /\ calls[i].outcome.status = 429
    /\ Len(calls[i].sent) = 1

\* C9: with WALLET_API_TOKEN unset or empty the lifespan fails before any
\* client is created; no tool is callable and no request ever goes out.
C9_NoTokenNoService ==
  ("WALLET_API_TOKEN" \notin DOMAIN env \/ env["WALLET_API_TOKEN"] = "") =>
    /\ phase \in {"boot", "failed"}
    /\ created = {} /\ open = {} /\ http = 0
    /\ ~everSent
    /\ \A i \in Slots : calls[i] = Idle

C9_Witness ==
  /\ phase = "failed"
  /\ "WALLET_API_TOKEN" \in DOMAIN env
  /\ env["WALLET_API_TOKEN"] = ""

\* C10: invocations in flight together do not depend on one another: a free
\* slot can start a call and a pending GET can complete whatever the others
\* are doing, and each one's request and result are those of its own
\* arguments and its own outcome.
C10_Independent ==
  \A i \in Slots :
    LET c == calls[i]
    IN /\ (phase = "serving" /\ c.pc = "idle")
            => ENABLED Invoke(i, "get_api_usage", EmptyDict)
       /\ c.pc = "awaiting"
            => ENABLED Respond(i, TransportError("timed out"))
       /\ Issued(c) =>
            c.sent = << Request(http, Path(c.tool),
                                Params(c.tool, BindArgs(c.tool, c.args).vals)) >>
       /\ Ended(c) => c.result = FetchResult(c.outcome)

C10_Witness ==
  \E i \in Slots : \E j \in Slots :
    /\ i # j
    /\ calls[i].pc = "done"
    /\ calls[j].pc = "awaiting"
    /\ calls[i].tool # calls[j].tool
    /\ calls[i].sent # calls[j].sent

====
